---- MODULE Spec2Model ----
(***************************************************************************)
(* LifeOps backend (src/backend/main.py): the log/settings store, the Snix *)
(* coach pipeline (window selection, statistics, response cache, Gemini    *)
(* gateway with retry, offline fallback) and the locks around them.        *)
(*                                                                         *)
(* Abstractions used throughout:                                           *)
(*  - A date string is an integer in string order.  The strings that       *)
(*    datetime.strptime(s, "%Y-%m-%d") accepts are 1..MaxDay (ISO strings  *)
(*    sort like the dates they denote); BadDate is a string of the right   *)
(*    shape ("2099-13-01") that strptime rejects and that sorts last.      *)
(*  - Averages rounded to 2 decimals are integers in hundredths.           *)
(*  - time.time() is the integer variable now (seconds), date.today() the  *)
(*    variable today.                                                      *)
(***************************************************************************)
EXTENDS Integers, Sequences, FiniteSets, TLC

VARIABLES
    logs,       \* table logs: set of rows, date is the primary key
    goals,      \* table state, row id=1: goals_json after _merge_goals
    today,      \* date.today()
    now,        \* time.time()
    cache,      \* _snix_cache: set of [key, ts, value], one per key
    storeLock,  \* _lock: its holder, or None
    cacheLock,  \* _snix_cache_lock: its holder, or None
    cfg,        \* environment: GEMINI_API_KEY set?, GEMINI_MODEL, SNIX_RETRIES
    req,        \* per coach worker: the locals of snix_coach and its position
    wr,         \* the worker serving /logs, /settings and /state requests
    nReq,       \* coach requests started so far
    nWrites,    \* store mutations so far
    okHist,     \* ok results returned since the data last changed
    fin,        \* input of the function under test (SpecWindow)
    fout,       \* its result
    ops         \* the upserts and deletes committed so far, oldest first

vars == <<logs, goals, today, now, cache, storeLock, cacheLock, cfg, req, wr,
          nReq, nWrites, okHist, fin, fout, ops>>

None == "none"

-----------------------------------------------------------------------------
(* Bounds of the model *)

MaxDay == 14        \* calendar dates are 1..MaxDay
MaxToday == 4       \* date.today() advances up to this day
MaxNow == 901       \* time.time() advances up to this second
MaxReq == 2         \* coach requests per behaviour
MaxWrites == 1      \* store mutations per behaviour

-----------------------------------------------------------------------------
(* Program constants *)

SNIX_CACHE_TTL_SEC == 900
SNIX_RETRIES == 3           \* the default; the environment may set another
MIN_DAYS == 3
MAX_DAYS == 60
MIN_ITEMS == 10
MAX_ITEMS == 240
MIN_WINDOW == 3

\* sleepMin is 7.0, in tenths
DEFAULT_GOALS == [sleepMin |-> 70, workoutsPerWeek |-> 3, foodTarget |-> 4, anxietyMax |-> 6]

-----------------------------------------------------------------------------
(* Dates *)

BadDate == MaxDay + 1

\* _parse_yyyy_mm_dd succeeds exactly on the calendar dates
IsCalendar(s) == s \in 1..MaxDay

Min2(a, b) == IF a < b THEN a ELSE b
Max2(a, b) == IF a > b THEN a ELSE b

-----------------------------------------------------------------------------
(* Sequences of log rows *)

RECURSIVE Filter(_, _)
\* [l for l in s if l.date \in D]
Filter(s, D) ==
    IF s = <<>> THEN <<>>
    ELSE IF Head(s).date \in D THEN <<Head(s)>> \o Filter(Tail(s), D)
         ELSE Filter(Tail(s), D)

RECURSIVE InsertByDate(_, _)
\* l inserted after every row whose date is <= its own (stable)
InsertByDate(l, s) ==
    IF s = <<>> THEN <<l>>
    ELSE IF Head(s).date <= l.date THEN <<Head(s)>> \o InsertByDate(l, Tail(s))
         ELSE <<l>> \o s

RECURSIVE SortByDate(_)
\* sorted(s, key=lambda x: x["date"])
SortByDate(s) ==
    IF s = <<>> THEN <<>>
    ELSE InsertByDate(s[Len(s)], SortByDate(SubSeq(s, 1, Len(s) - 1)))

RECURSIVE SetToDesc(_)
\* the rows of S in descending date order
SetToDesc(S) ==
    IF S = {} THEN <<>>
    ELSE LET m == CHOOSE l \in S : \A k \in S : k.date <= l.date
         IN <<m>> \o SetToDesc(S \ {m})

Take(s, n) == SubSeq(s, 1, Min2(n, Len(s)))

RECURSIVE SumOf(_, _)
SumOf(s, f) == IF s = <<>> THEN 0 ELSE Head(s)[f] + SumOf(Tail(s), f)

SeqRange(s) == {s[i] : i \in 1..Len(s)}

\* F(x) for x the value of e: a local name whose value is computed once
With(e, F(_)) == CHOOSE y \in {F(x) : x \in {e}} : TRUE

-----------------------------------------------------------------------------
(* Window Selector *)

\* a selector that takes today's row for a future one
PastOrToday_Strict(d, t) == d < t

\* d <= today
PastOrToday(d, t) == d <= t

\* a selector that counts the future rows only when it leaves them out
SelectWindow_CountExcluded(logs_desc, days, t) ==
    LET past   == Filter(logs_desc, {d \in 1..MaxDay : PastOrToday(d, t)})
        future == Filter(logs_desc, {d \in 1..MaxDay : ~PastOrToday(d, t)})
        base   == IF Len(past) >= 3 THEN past ELSE logs_desc
        sorted == SortByDate(base)
    IN  IF sorted = <<>> \/ ~IsCalendar(sorted[Len(sorted)].date)
        THEN [ok |-> FALSE]
        ELSE LET end_date   == sorted[Len(sorted)].date
                 start_date == end_date - (days - 1)
             IN  [ok |-> TRUE,
                  window |-> Filter(sorted, {d \in 1..MaxDay : start_date <= d /\ d <= end_date}),
                  future_count |-> IF Len(past) >= 3 THEN Len(future) ELSE 0,
                  used_start_date |-> start_date,
                  used_end_date |-> end_date,
                  used_past_only |-> Len(past) >= 3]

\* a selector whose window starts one day too early: end_date - days
SelectWindow_DaysBack(logs_desc, days, t) ==
    LET past   == Filter(logs_desc, {d \in 1..MaxDay : PastOrToday(d, t)})
        future == Filter(logs_desc, {d \in 1..MaxDay : ~PastOrToday(d, t)})
        base   == IF Len(past) >= 3 THEN past ELSE logs_desc
        sorted == SortByDate(base)
    IN  IF sorted = <<>> \/ ~IsCalendar(sorted[Len(sorted)].date)
        THEN [ok |-> FALSE]
        ELSE LET end_date   == sorted[Len(sorted)].date
                 start_date == end_date - days
             IN  [ok |-> TRUE,
                  window |-> Filter(sorted, {d \in 1..MaxDay : start_date <= d /\ d <= end_date}),
                  future_count |-> Len(future),
                  used_start_date |-> start_date,
                  used_end_date |-> end_date,
                  used_past_only |-> Len(past) >= 3]

\* _select_window_from_logs(logs_desc, days), on the day t
SelectWindow(logs_desc, days, t) ==
    With(Filter(logs_desc, {d \in 1..MaxDay : PastOrToday(d, t)}), LAMBDA past :
    With(Filter(logs_desc, {d \in 1..MaxDay : ~PastOrToday(d, t)}), LAMBDA future :
    With(IF Len(past) >= 3 THEN past ELSE logs_desc, LAMBDA base :
    With(SortByDate(base), LAMBDA sorted :
        IF sorted = <<>> \/ ~IsCalendar(sorted[Len(sorted)].date)
        THEN [ok |-> FALSE]
        ELSE With(sorted[Len(sorted)].date, LAMBDA end_date :
             With(end_date - (days - 1), LAMBDA start_date :
                 [ok |-> TRUE,
                  window |-> Filter(sorted, {d \in 1..MaxDay : start_date <= d /\ d <= end_date}),
                  future_count |-> Len(future),
                  used_start_date |-> start_date,
                  used_end_date |-> end_date,
                  used_past_only |-> Len(past) >= 3]))))))

-----------------------------------------------------------------------------
(* Statistics Engine *)

\* round(num/den, 2) in hundredths: nearest, ties to even
Round2(num, den) ==
    LET q == (100 * num) \div den
        r == (100 * num) % den
    IN  IF 2 * r > den THEN q + 1
        ELSE IF 2 * r < den THEN q
        ELSE IF q % 2 = 0 THEN q ELSE q + 1

RECURSIVE CountIf_AtLeast(_, _)
\* a count that takes in the rows at the limit
CountIf_AtLeast(s, limit) ==
    IF s = <<>> THEN 0
    ELSE (IF Head(s).anxiety >= limit THEN 1 ELSE 0) + CountIf_AtLeast(Tail(s), limit)

RECURSIVE CountIf(_, _)
\* number of rows of s with anxiety > limit
CountIf(s, limit) ==
    IF s = <<>> THEN 0
    ELSE (IF Head(s).anxiety > limit THEN 1 ELSE 0) + CountIf(Tail(s), limit)

RECURSIVE CountTrained(_)
CountTrained(s) ==
    IF s = <<>> THEN 0 ELSE (IF Head(s).trained THEN 1 ELSE 0) + CountTrained(Tail(s))

\* round(num/den, 3) in thousandths, for den > 0 and any sign of num
Round3(num, den) ==
    LET q == (1000 * num) \div den
        r == (1000 * num) % den
    IN  IF 2 * r > den THEN q + 1
        ELSE IF 2 * r < den THEN q
        ELSE IF q % 2 = 0 THEN q ELSE q + 1

Trained(l) == l.trained
Untrained(l) == ~l.trained

\* no figure: train_effect = None
NoEffect == [present |-> FALSE, v |-> 0]

\* the difference taken the other way round: trained minus not trained
TrainEffect_Reversed(window) ==
    LET anx_train == SelectSeq(window, Trained)
        anx_not   == SelectSeq(window, Untrained)
    IN  IF anx_train = <<>> \/ anx_not = <<>> THEN NoEffect
        ELSE [present |-> TRUE,
              v |-> Round3(SumOf(anx_train, "anxiety") * Len(anx_not)
                             - SumOf(anx_not, "anxiety") * Len(anx_train),
                           Len(anx_not) * Len(anx_train))]

\* lines 276-280: mean anxiety of the days without training minus the mean of
\* the days with training, in thousandths; None unless both kinds of day occur
TrainEffect(window) ==
    LET anx_train == SelectSeq(window, Trained)
        anx_not   == SelectSeq(window, Untrained)
    IN  IF anx_train = <<>> \/ anx_not = <<>> THEN NoEffect
        ELSE [present |-> TRUE,
              v |-> Round3(SumOf(anx_not, "anxiety") * Len(anx_train)
                             - SumOf(anx_train, "anxiety") * Len(anx_not),
                           Len(anx_not) * Len(anx_train))]

\* _summarize_window, for a non-empty window
Summarize(g, window) ==
    LET n     == Len(window)
        peak  == CHOOSE a \in {window[i].anxiety : i \in 1..n} :
                    \A i \in 1..n : window[i].anxiety <= a
        pidx  == CHOOSE i \in 1..n :
                    /\ window[i].anxiety = peak
                    /\ \A j \in 1..(i - 1) : window[j].anxiety # peak
        dts   == {window[i].date : i \in 1..n}
        start == CHOOSE d \in dts : \A e \in dts : d <= e
        end   == CHOOSE d \in dts : \A e \in dts : e <= d
    IN  [n |-> n,
         window_start |-> start,
         window_end |-> end,
         missing_days_in_range |-> Cardinality((start..end) \ dts),
         anxiety_limit |-> g.anxietyMax,
         avg_sleep |-> Round2(SumOf(window, "sleep"), n),
         avg_anxiety |-> Round2(SumOf(window, "anxiety"), n),
         workouts |-> CountTrained(window),
         high_anxiety_days |-> CountIf(window, g.anxietyMax),
         peak_anxiety |-> peak,
         peak_date |-> window[pidx].date,
         train_effect |-> TrainEffect(window)]

-----------------------------------------------------------------------------
(* Goals *)

GoalKeys == {"sleepMin", "workoutsPerWeek", "foodTarget", "anxietyMax"}

\* A JSON value of a goals payload. Numbers are counted in tenths (7.5 is 75);
\* sleepMin, a float in the code, is kept in tenths too, the other three goals
\* are whole numbers.
JNum(x) == [t |-> "num", v |-> x]
JInt(n) == JNum(10 * n)
\* true and false: int(True) = 1, float(True) = 1.0
JBool(b) == [t |-> "bool", v |-> IF b THEN 10 ELSE 0]
\* a string that spells the number x, as "5" or "2.5"
JNumStr(x) == [t |-> "numstr", v |-> x]
\* null, and a string that spells no number
JNull == [t |-> "null", v |-> 0]
JStr == [t |-> "str", v |-> 0]

\* int() of a number: the fraction is cut off, towards zero
Trunc(x) == IF x >= 0 THEN x \div 10 ELSE -((-x) \div 10)

\* as_int: int(x); int("2.5"), int(None) and int("abc") raise, and give the default
AsInt(x, default) ==
    IF x.t \in {"num", "bool"} THEN Trunc(x.v)
    ELSE IF x.t = "numstr" /\ x.v % 10 = 0 THEN x.v \div 10
    ELSE default

\* as_float: float(x); float(None) and float("abc") raise, and give the default
AsFloat(x, default) ==
    IF x.t \in {"num", "bool", "numstr"} THEN x.v ELSE default

\* DEFAULT_GOALS as the JSON values g.get(k) finds for a key the payload lacks
DefaultJson(k) == JNum(IF k = "sleepMin" THEN DEFAULT_GOALS[k] ELSE 10 * DEFAULT_GOALS[k])

\* a merge over the goals in the store instead of the defaults
MergeGoals_OverStored(payload) ==
    [k \in GoalKeys |->
        LET x == IF k \in DOMAIN payload THEN payload[k] ELSE DefaultJson(k)
        IN  IF k \notin DOMAIN payload THEN goals[k]
            ELSE IF k = "sleepMin" THEN AsFloat(x, goals[k])
            ELSE AsInt(x, goals[k])]

\* _merge_goals: payload is a function from some keys to JSON values
MergeGoals(payload) ==
    [k \in GoalKeys |->
        LET x == IF k \in DOMAIN payload THEN payload[k] ELSE DefaultJson(k)
        IN  IF k = "sleepMin" THEN AsFloat(x, DEFAULT_GOALS[k])
            ELSE AsInt(x, DEFAULT_GOALS[k])]

\* json.loads(goals_json) of a row written by save_settings or _init_schema
StoredGoals(g) == [k \in GoalKeys |-> JNum(IF k = "sleepMin" THEN g[k] ELSE 10 * g[k])]

-----------------------------------------------------------------------------
(* Gemini client: configuration and model name *)

\* A model name is a sequence of tokens, e.g. <<"models/", "gemini-", "2.5-flash">>
CompetitorMarkers == {"llama", "mixtral"}

ValidateModel(m) ==
    IF m = <<>> THEN [ok |-> FALSE, status |-> 503, name |-> <<>>]
    ELSE LET s == IF Head(m) = "models/" THEN Tail(m) ELSE m
         IN  IF \E i \in 1..Len(s) : s[i] \in CompetitorMarkers
                THEN [ok |-> FALSE, status |-> 422, name |-> s]
             ELSE IF s = <<>> \/ Head(s) # "gemini-"
                THEN [ok |-> FALSE, status |-> 422, name |-> s]
             ELSE [ok |-> TRUE, status |-> 200, name |-> s]

\* The checks _gemini_generate_once makes before any HTTP call:
\* the status of the HTTPException it raises, or 200
PreflightStatus(c) ==
    IF ~c.key THEN 503 ELSE ValidateModel(c.model).status

OFFLINE_MODEL == <<"offline-fallback">>

-----------------------------------------------------------------------------
(* Gemini client: what one HTTP call can end in *)

QuotaMarkers == {"RESOURCE_EXHAUSTED", "exceeded your current quota"}

OkOutcomes ==
    {[kind |-> "ok", text |-> "t1", block |-> None, finish |-> "STOP",
      code |-> 200, body |-> ""],
     [kind |-> "ok", text |-> "",   block |-> None, finish |-> "MAX_TOKENS",
      code |-> 200, body |-> ""],
     [kind |-> "ok", text |-> "",   block |-> "SAFETY", finish |-> None,
      code |-> 200, body |-> ""]}

HttpOutcome(c, b) == [kind |-> "http", text |-> "", block |-> None, finish |-> None, code |-> c, body |-> b]
HttpOutcomes ==
    {HttpOutcome(429, ""), HttpOutcome(500, ""), HttpOutcome(503, "RESOURCE_EXHAUSTED"),
     HttpOutcome(400, ""), HttpOutcome(400, "exceeded your current quota")}

UrlOutcome == [kind |-> "url", text |-> "", block |-> None, finish |-> None, code |-> 0, body |-> ""]
\* any other exception out of urlopen/read/json.loads (timeout in read, bad JSON)
ExcOutcome == [kind |-> "exc", text |-> "", block |-> None, finish |-> None, code |-> 0, body |-> ""]

\* last_err, as what the coach later looks for in it
NoErr == [src |-> None, code |-> 0, body |-> ""]
HttpErr(code, body) == [src |-> "http", code |-> code, body |-> body]
UrlErr == [src |-> "url", code |-> 0, body |-> ""]
\* "Gemini erro inesperado: " + str(e); for an HTTPException str(e) starts
\* with its status code ("503: GEMINI_API_KEY ...")
ExcErr(status) == [src |-> "exc", code |-> status, body |-> ""]

\* e.code in (429, 500, 503)
Retriable(code) == code \in {429, 500, 503}

\* a classifier that looks for the status code only
IsQuota_CodeOnly(detail) == detail.src = "http" /\ detail.code = 429

\* a classifier that takes every gateway error for a quota error
IsQuota_Always(detail) == TRUE

\* " 429 " in detail or a quota marker in detail: only "Gemini HTTPError: {code} {body}"
\* puts the code between blanks
IsQuota(detail) ==
    \/ detail.src = "http" /\ detail.code = 429
    \/ detail.body \in QuotaMarkers

\* min(SNIX_BACKOFF_CAP, SNIX_BACKOFF_BASE * 2 ** attempt), in milliseconds
BACKOFF_BASE_MS == 800
BACKOFF_CAP_MS == 8000
JITTER_MS == 250
RECURSIVE Pow2(_)
Pow2(k) == IF k = 0 THEN 1 ELSE 2 * Pow2(k - 1)
BackoffBase(attempt) == Min2(BACKOFF_CAP_MS, BACKOFF_BASE_MS * Pow2(attempt))

-----------------------------------------------------------------------------
(* Fallback Reporter and the coach's results *)

\* The figures a report restates; a model-written report restates none
NoFigures == [window_start |-> 0, window_end |-> 0, n |-> 0, avg_sleep |-> 0,
              sleepMin |-> 0, avg_anxiety |-> 0, anxiety_limit |-> 0,
              high_anxiety_days |-> 0, peak_anxiety |-> 0, peak_date |-> 0,
              workouts |-> 0, train_effect |-> NoEffect]

\* _snix_fallback_report(stats, focus): the lines it prints from stats
FallbackReport(stats, focus) ==
    [kind |-> "fallback", text |-> "", focus |-> focus, future_note |-> FALSE,
     figures |-> [window_start |-> stats.window_start, window_end |-> stats.window_end,
                  n |-> stats.n, avg_sleep |-> stats.avg_sleep,
                  sleepMin |-> stats.sleepMin, avg_anxiety |-> stats.avg_anxiety,
                  anxiety_limit |-> stats.anxiety_limit,
                  high_anxiety_days |-> stats.high_anxiety_days,
                  peak_anxiety |-> stats.peak_anxiety, peak_date |-> stats.peak_date,
                  workouts |-> stats.workouts, train_effect |-> stats.train_effect]]

\* a report that passes the model's text on as it is
LlmReport_Raw(out, future_count) ==
    [kind |-> "llm", text |-> out.text, focus |-> "", future_note |-> future_count > 0,
     figures |-> NoFigures]

\* The report of a successful call: the text, or the notice for a blocked or
\* an empty answer, plus the note on future-dated rows
LlmReport(out, future_count) ==
    [kind |-> IF out.block # None THEN "blocked"
              ELSE IF out.text = "" THEN "empty" ELSE "llm",
     text |-> IF out.block # None THEN "" ELSE out.text,
     focus |-> "", future_note |-> future_count > 0,
     figures |-> NoFigures]

\* stats_out = {**stats, sleepMin, window_*_selected, used_past_only, future_count,
\*              llm_meta, cache_key}
StatsOut(stats, g, sel, meta, key) ==
    [n |-> stats.n, window_start |-> stats.window_start, window_end |-> stats.window_end,
     missing_days_in_range |-> stats.missing_days_in_range,
     anxiety_limit |-> stats.anxiety_limit, avg_sleep |-> stats.avg_sleep,
     avg_anxiety |-> stats.avg_anxiety, workouts |-> stats.workouts,
     high_anxiety_days |-> stats.high_anxiety_days, peak_anxiety |-> stats.peak_anxiety,
     peak_date |-> stats.peak_date, train_effect |-> stats.train_effect,
     sleepMin |-> g.sleepMin,
     window_start_selected |-> sel.used_start_date,
     window_end_selected |-> sel.used_end_date,
     used_past_only |-> sel.used_past_only,
     future_count |-> sel.future_count,
     llm_meta |-> meta,
     cache_key |-> key]

\* lines 498-502: meta of one answer; it has no "error" entry
MetaOf(out) ==
    [error |-> None, block_reason |-> out.block, finish_reason |-> out.finish]
\* the variant of the mark in which the fallback leaves no trace
QuotaMeta_Unmarked == [error |-> None, block_reason |-> None, finish_reason |-> None]
\* line 960: "llm_meta": {"error": "quota_exhausted"}
QuotaMeta ==
    [error |-> "quota_exhausted", block_reason |-> None, finish_reason |-> None]

\* cache_key = f"days={days}|focus={focus}|notes={int(include_notes)}|end=...|n=..."
CacheKey(days, focus, notes, sel) ==
    [days |-> days, focus |-> focus, notes |-> notes,
     end |-> sel.used_end_date, n |-> Len(sel.window)]

CoachOut(model, days, window, report, stats_out) ==
    [ok |-> TRUE, coach |-> "Snix", model |-> model, days |-> days,
     n_logs_used |-> Len(window), report |-> report, stats |-> stats_out]

\* lines 901-940: the result built from a successful gateway call
SuccessResult(r, out, c) ==
    CoachOut(ValidateModel(c.model).name, r.days, r.sel.window,
             LlmReport(out, r.sel.future_count),
             StatsOut(r.stats, r.goals, r.sel, MetaOf(out), r.key))

\* lines 951-971: the result built when the gateway error is a quota error
FallbackResult(r) ==
    LET so == StatsOut(r.stats, r.goals, r.sel, QuotaMeta, r.key)
    IN  CoachOut(OFFLINE_MODEL, r.days, r.sel.window, FallbackReport(so, r.focus), so)

-----------------------------------------------------------------------------
(* Requests *)

Coaches == {"c1", "c2"}
Writer == "w"

Clamp(lo, hi, x) == Max2(lo, Min2(hi, x))

\* SnixCoachIn payloads
CoachInputs ==
    {[days |-> 14, max_items |-> 5,  focus |-> "",     include_notes |-> TRUE],
     [days |-> 14, max_items |-> 60, focus |-> "",     include_notes |-> TRUE],
     [days |-> 1,  max_items |-> 60, focus |-> "sono", include_notes |-> FALSE]}

\* (payload.focus or "ansiedade").strip()[:40]
FocusOf(f) == IF f = "" THEN "ansiedade" ELSE f

IdleReq ==
    [pc |-> "idle", id |-> 0, days |-> 0, max_items |-> 0, focus |-> "", notes |-> FALSE,
     goals |-> DEFAULT_GOALS, logs_desc |-> <<>>, sel |-> [ok |-> FALSE],
     stats |-> NoFigures, key |-> None, tnow |-> 0, day |-> 0,
     attempt |-> 0, last_err |-> NoErr, delay |-> 0,
     out |-> [text |-> "", block |-> None, finish |-> None],
     result |-> None, status |-> 0, why |-> None,
     calls |-> 0, evicted |-> FALSE, wrote |-> FALSE, stale |-> FALSE]

\* A log row of the initial table
MkLog(d) == [date |-> d, sleep |-> 5 + (d % 4), anxiety |-> (3 * d) % 11,
             trained |-> d % 2 = 0]

Store(days) == {MkLog(d) : d \in days}

Env(key, model, retries) == [key |-> key, model |-> model, retries |-> retries]

GoodModel == <<"gemini-", "2.5-flash">>

\* Environments: with and without a usable key and model name
Configs ==
    {Env(TRUE,  GoodModel, 2),
     Env(TRUE,  <<"models/", "gemini-", "2.5-flash">>, 0),
     Env(FALSE, GoodModel, SNIX_RETRIES),
     Env(TRUE,  <<"llama", "-3">>, 1),
     Env(TRUE,  <<>>, 1)}

NoInput == [logs_desc |-> <<>>, days |-> 0, today |-> 0]
NoOutput == [applied |-> FALSE, sel |-> [ok |-> FALSE]]

InitWith(stores, envs) ==
    /\ logs \in stores
    /\ goals = DEFAULT_GOALS
    /\ today = 3
    /\ now = 0
    /\ cache = {}
    /\ storeLock = None
    /\ cacheLock = None
    /\ cfg \in envs
    /\ req = [p \in Coaches |-> IdleReq]
    /\ wr = [pc |-> "idle", op |-> None, status |-> 0]
    /\ nReq = 0
    /\ nWrites = 0
    /\ okHist = {}
    /\ fin = NoInput
    /\ fout = NoOutput
    /\ ops = <<>>

-----------------------------------------------------------------------------
(* The clock *)

TickSteps == {SNIX_CACHE_TTL_SEC - 1, SNIX_CACHE_TTL_SEC + 1}

\* time.time() moves on by one of the steps
TickWith(steps) ==
    /\ \E d \in steps : now + d <= MaxNow /\ now' = now + d
    /\ UNCHANGED <<logs, goals, today, cache, storeLock, cacheLock, cfg, req, wr,
                   nReq, nWrites, okHist, fin, fout, ops>>

Tick == TickWith(TickSteps)

NextDay ==
    /\ today < MaxToday
    /\ today' = today + 1
    /\ UNCHANGED <<logs, goals, now, cache, storeLock, cacheLock, cfg, req, wr,
                   nReq, nWrites, okHist, fin, fout, ops>>

-----------------------------------------------------------------------------
(* snix_coach *)

Finished(r) == r.pc \in {"idle", "done", "failed"}

\* lines 848-853: a request arrives; its inputs are clamped
CoachBeginWith(p, inputs, maxReq) ==
    /\ Finished(req[p])
    /\ nReq < maxReq
    /\ \E in \in inputs :
        req' = [req EXCEPT ![p] =
                  [IdleReq EXCEPT !.pc = "enter", !.id = nReq + 1, !.tnow = now,
                                  !.days = Clamp(MIN_DAYS, MAX_DAYS, in.days),
                                  !.max_items = Clamp(MIN_ITEMS, MAX_ITEMS, in.max_items),
                                  !.focus = FocusOf(in.focus),
                                  !.notes = in.include_notes]]
    /\ nReq' = nReq + 1
    /\ UNCHANGED <<logs, goals, today, now, cache, storeLock, cacheLock, cfg, wr,
                   nWrites, okHist, fin, fout, ops>>

CoachBegin(p) == CoachBeginWith(p, CoachInputs, MaxReq)

\* line 855: with _lock
CoachLockStore(p) ==
    /\ req[p].pc = "enter"
    /\ storeLock = None
    /\ storeLock' = p
    /\ req' = [req EXCEPT ![p].pc = "locked"]
    /\ UNCHANGED <<logs, goals, today, now, cache, cacheLock, cfg, wr,
                   nReq, nWrites, okHist, fin, fout, ops>>

\* a load that keeps the lock for the rest of the request
LockAfterLoad_Kept(p) == p

\* the lock the load leaves behind
LockAfterLoad(p) == None

\* a preparation that accepts any non-empty window
Prepared_AnyWindow(r, g, rows, t) ==
    LET sel == SelectWindow(rows, r.days, t)
        r1  == [r EXCEPT !.goals = g, !.logs_desc = rows, !.day = t]
    IN  IF rows = <<>>
        THEN [r1 EXCEPT !.pc = "failed", !.status = 422, !.why = "no_logs"]
        ELSE IF ~sel.ok
        THEN [r1 EXCEPT !.pc = "failed", !.status = 500, !.why = "bad_date"]
        ELSE [r1 EXCEPT !.pc = "keyed", !.sel = sel,
                        !.stats = Summarize(g, sel.window),
                        !.key = CacheKey(r.days, r.focus, r.notes, sel)]

\* lines 873-885, on the rows and goals just read
Prepared(r, g, rows, t) ==
    With(SelectWindow(rows, r.days, t), LAMBDA sel :
    LET r1 == [r EXCEPT !.goals = g, !.logs_desc = rows, !.day = t]
    IN  IF rows = <<>>
        THEN [r1 EXCEPT !.pc = "failed", !.status = 422, !.why = "no_logs"]
        ELSE IF ~sel.ok
        THEN [r1 EXCEPT !.pc = "failed", !.status = 500, !.why = "bad_date"]
        ELSE IF Len(sel.window) < MIN_WINDOW
        THEN [r1 EXCEPT !.pc = "failed", !.status = 422, !.why = "few_logs", !.sel = sel]
        ELSE [r1 EXCEPT !.pc = "keyed", !.sel = sel,
                        !.stats = Summarize(g, sel.window),
                        !.key = CacheKey(r.days, r.focus, r.notes, sel)])

\* lines 856-885: read goals and the newest max_items rows under the lock,
\* release it, then select the window, summarize and derive the cache key
CoachLoad(p) ==
    /\ req[p].pc = "locked"
    /\ storeLock = p
    /\ storeLock' = LockAfterLoad(p)
    /\ \E g \in {MergeGoals(StoredGoals(goals))},
          rows \in {Take(SetToDesc(logs), req[p].max_items)} :
            req' = [req EXCEPT ![p] = Prepared(req[p], g, rows, today)]
    /\ UNCHANGED <<logs, goals, today, now, cache, cacheLock, cfg, wr,
                   nReq, nWrites, okHist, fin, fout, ops>>

-----------------------------------------------------------------------------
(* Bookkeeping for the claims (no counterpart in the code) *)

\* An ok result as returned to a caller: which request, over which inputs, from
\* the cache entry written at ts; by holds the ids of the requests that have
\* overwritten or evicted that entry since
HistEntry(r, ts, res, seq) ==
    [seq |-> seq, days |-> r.days, focus |-> r.focus, notes |-> r.notes,
     max_items |-> r.max_items, day |-> r.day, key |-> r.key, ts |-> ts,
     result |-> res, by |-> {}]

\* request id overwrites or evicts the entry of key
Touched(H, key, id) ==
    {IF h.key = key THEN [h EXCEPT !.by = @ \cup {id}] ELSE h : h \in H}

-----------------------------------------------------------------------------
(* Response cache *)

Entries(c, key) == {e \in c : e.key = key}

\* a test that already evicts an entry exactly as old as the TTL
Expired_AtTtl(tnow, ts) == tnow - ts >= SNIX_CACHE_TTL_SEC

\* a test that never evicts
Expired_Never(tnow, ts) == FALSE

\* a test with the comparison turned around
Expired_Inverted(tnow, ts) == tnow - ts < SNIX_CACHE_TTL_SEC

\* (now - float(item["ts"])) > SNIX_CACHE_TTL_SEC
Expired(tnow, ts) == tnow - ts > SNIX_CACHE_TTL_SEC

\* a store that keeps results of the model only, never a fallback report
CachePut_SuccessOnly(c, key, ts, value) ==
    IF value.model = OFFLINE_MODEL
    THEN c
    ELSE (c \ Entries(c, key)) \cup {[key |-> key, ts |-> ts, value |-> value]}

\* _snix_cache[key] = {"ts": ts, "value": value}
CachePut(c, key, ts, value) ==
    (c \ Entries(c, key)) \cup {[key |-> key, ts |-> ts, value |-> value]}

\* a hit that renews the entry: its timestamp becomes the time of the lookup
CacheAfterHit_Sliding(c, key, tnow) ==
    (c \ Entries(c, key)) \cup {[e EXCEPT !.ts = tnow] : e \in Entries(c, key)}

\* line 379: return item["value"]; the entry stays as it was written
CacheAfterHit(c, key, tnow) == c

\* line 371: now = time.time(), read before the lock is taken
CoachReadClock(p) ==
    /\ req[p].pc = "keyed"
    /\ req' = [req EXCEPT ![p].pc = "getwait", ![p].tnow = now]
    /\ UNCHANGED <<logs, goals, today, now, cache, storeLock, cacheLock, cfg, wr,
                   nReq, nWrites, okHist, fin, fout, ops>>

\* line 372: with _snix_cache_lock
CoachLockCacheGet(p) ==
    /\ req[p].pc = "getwait"
    /\ cacheLock = None
    /\ cacheLock' = p
    /\ req' = [req EXCEPT ![p].pc = "getlocked"]
    /\ UNCHANGED <<logs, goals, today, now, cache, storeLock, cfg, wr,
                   nReq, nWrites, okHist, fin, fout, ops>>

\* lines 373-379 and 887-888: miss, expired (evict) or hit (return the value)
CoachCacheGet(p) ==
    LET r == req[p]
        found == Entries(cache, r.key)
    IN  /\ r.pc = "getlocked"
        /\ cacheLock = p
        /\ cacheLock' = None
        /\ IF found = {}
           THEN /\ req' = [req EXCEPT ![p].pc = "calling"]
                /\ UNCHANGED <<cache, okHist>>
           ELSE LET e == CHOOSE x \in found : TRUE
                IN  IF Expired(r.tnow, e.ts)
                    THEN /\ cache' = cache \ found
                         /\ req' = [req EXCEPT ![p].pc = "calling", ![p].evicted = TRUE]
                         /\ okHist' = Touched(okHist, r.key, r.id)
                    ELSE /\ req' = [req EXCEPT ![p].pc = "done", ![p].why = "cached",
                                               ![p].result = e.value, ![p].status = 200]
                         /\ okHist' = IF r.stale THEN okHist
                                      ELSE okHist \cup {HistEntry(r, e.ts, e.value, nReq)}
                         /\ cache' = CacheAfterHit(cache, r.key, r.tnow)
        /\ UNCHANGED <<logs, goals, today, now, storeLock, cfg, wr,
                       nReq, nWrites, fin, fout, ops>>

-----------------------------------------------------------------------------
(* _gemini_generate, called from snix_coach *)

\* lines 945-977: the coach's handler for the HTTPException the gateway raises
GatewayRaise(r, detail) ==
    IF IsQuota(detail)
    THEN [r EXCEPT !.pc = "setwait", !.why = "fallback", !.last_err = detail,
                   !.result = FallbackResult(r)]
    ELSE [r EXCEPT !.pc = "failed", !.why = "upstream", !.last_err = detail,
                   !.status = 502]

\* lines 556-559: sleep before the next attempt
Backoff(r, detail, jitter) ==
    [r EXCEPT !.pc = "sleeping", !.last_err = detail,
              !.delay = BackoffBase(r.attempt) + jitter]

\* lines 532-554: whether the handler of this failure raises instead of retrying
GivesUp(kind, code, attempt, retries) ==
    IF kind = "http" THEN ~Retriable(code) \/ attempt >= retries
    ELSE attempt >= retries

Jitters == {0, JITTER_MS - 1}

\* lines 448-451 fail: the HTTPException is caught by "except Exception"
CoachAttemptRejected(p) ==
    LET r == req[p]
        st == PreflightStatus(cfg)
    IN  /\ r.pc = "calling"
        /\ st # 200
        /\ \E j \in Jitters :
             req' = [req EXCEPT ![p] =
                       IF GivesUp("exc", st, r.attempt, cfg.retries) THEN GatewayRaise(r, ExcErr(st))
                       ELSE Backoff(r, ExcErr(st), j)]
        /\ UNCHANGED <<logs, goals, today, now, cache, storeLock, cacheLock, cfg, wr,
                       nReq, nWrites, okHist, fin, fout, ops>>

\* lines 476-504 and 901-940: the HTTP call answers; the result is built
CoachAttemptOk(p) ==
    LET r == req[p]
    IN  /\ r.pc = "calling"
        /\ PreflightStatus(cfg) = 200
        /\ \E o \in OkOutcomes :
             req' = [req EXCEPT ![p] =
                       [r EXCEPT !.pc = "setwait", !.why = "llm", !.calls = r.calls + 1,
                                 !.last_err = NoErr,
                                 !.out = [text |-> o.text, block |-> o.block,
                                          finish |-> o.finish],
                                 !.result = SuccessResult(r, o, cfg)]]
        /\ UNCHANGED <<logs, goals, today, now, cache, storeLock, cacheLock, cfg, wr,
                       nReq, nWrites, okHist, fin, fout, ops>>

\* lines 532-544: the HTTP call ends in an HTTPError
CoachAttemptHttpError(p) ==
    LET r == req[p]
        r1 == [r EXCEPT !.calls = r.calls + 1]
    IN  /\ r.pc = "calling"
        /\ PreflightStatus(cfg) = 200
        /\ \E o \in HttpOutcomes, j \in Jitters :
             req' = [req EXCEPT ![p] =
                       IF GivesUp("http", o.code, r.attempt, cfg.retries)
                       THEN GatewayRaise(r1, HttpErr(o.code, o.body))
                       ELSE Backoff(r1, HttpErr(o.code, o.body), j)]
        /\ UNCHANGED <<logs, goals, today, now, cache, storeLock, cacheLock, cfg, wr,
                       nReq, nWrites, okHist, fin, fout, ops>>

\* lines 546-554: the HTTP call ends in a URLError or in any other exception
CoachAttemptTransportError(p) ==
    LET r == req[p]
        r1 == [r EXCEPT !.calls = r.calls + 1]
    IN  /\ r.pc = "calling"
        /\ PreflightStatus(cfg) = 200
        /\ \E o \in {UrlOutcome, ExcOutcome}, j \in Jitters :
             LET detail == IF o.kind = "url" THEN UrlErr ELSE ExcErr(0)
             IN  req' = [req EXCEPT ![p] =
                           IF GivesUp(o.kind, 0, r.attempt, cfg.retries) THEN GatewayRaise(r1, detail)
                           ELSE Backoff(r1, detail, j)]
        /\ UNCHANGED <<logs, goals, today, now, cache, storeLock, cacheLock, cfg, wr,
                       nReq, nWrites, okHist, fin, fout, ops>>

\* line 559 returns: the next iteration of the loop
CoachWake(p) ==
    /\ req[p].pc = "sleeping"
    /\ req' = [req EXCEPT ![p].pc = "calling", ![p].attempt = req[p].attempt + 1,
                          ![p].delay = 0]
    /\ UNCHANGED <<logs, goals, today, now, cache, storeLock, cacheLock, cfg, wr,
                   nReq, nWrites, okHist, fin, fout, ops>>

\* line 383: with _snix_cache_lock
CoachLockCacheSet(p) ==
    /\ req[p].pc = "setwait"
    /\ cacheLock = None
    /\ cacheLock' = p
    /\ req' = [req EXCEPT ![p].pc = "setlocked"]
    /\ UNCHANGED <<logs, goals, today, now, cache, storeLock, cfg, wr,
                   nReq, nWrites, okHist, fin, fout, ops>>

\* lines 384, 942-943 and 973-974: store the result and return it
CoachCacheSet(p) ==
    LET r == req[p]
    IN  /\ r.pc = "setlocked"
        /\ cacheLock = p
        /\ cacheLock' = None
        /\ cache' = CachePut(cache, r.key, now, r.result)
        /\ req' = [req EXCEPT ![p].pc = "done", ![p].status = 200, ![p].wrote = TRUE]
        /\ okHist' = Touched(okHist, r.key, r.id) \cup
                       (IF r.stale THEN {} ELSE {HistEntry(r, now, r.result, nReq)})
        /\ UNCHANGED <<logs, goals, today, now, storeLock, cfg, wr,
                       nReq, nWrites, fin, fout, ops>>

-----------------------------------------------------------------------------
(* /logs, /settings and /state *)

\* A date string as sent: its shape (separators and length) and what it spells
WriterInputs ==
    {[op |-> "upsert", shape |-> "dash", date |-> 3, sleep |-> 8, anxiety |-> 9,
      trained |-> TRUE, goals |-> <<>>],
     [op |-> "upsert", shape |-> "dash", date |-> BadDate, sleep |-> 6, anxiety |-> 2,
      trained |-> FALSE, goals |-> <<>>],
     [op |-> "upsert", shape |-> "slash", date |-> 5, sleep |-> 6, anxiety |-> 2,
      trained |-> FALSE, goals |-> <<>>],
     [op |-> "delete", shape |-> "dash", date |-> 2, sleep |-> 0, anxiety |-> 0,
      trained |-> FALSE, goals |-> <<>>],
     [op |-> "settings", shape |-> "dash", date |-> 0, sleep |-> 0, anxiety |-> 0,
      trained |-> FALSE, goals |-> [anxietyMax |-> JInt(2), sleepMin |-> JNull]],
     [op |-> "state", shape |-> "dash", date |-> 0, sleep |-> 0, anxiety |-> 0,
      trained |-> FALSE, goals |-> <<>>]}

\* len(date) != 10 or date[4] != "-" or date[7] != "-"
ShapeOk(in) == in.shape = "dash"

\* lines 751-772 and 814-815: the checks made before the lock is taken
Accepts(in) ==
    CASE in.op = "upsert" ->
            /\ ShapeOk(in)
            /\ in.sleep >= 0 /\ in.sleep <= 24
            /\ in.anxiety >= 0 /\ in.anxiety <= 10
      [] in.op = "delete" -> ShapeOk(in)
      [] OTHER -> TRUE

\* an insert that does not resolve the conflict on date
Upsert_Append(L, row) == L \cup {row}

\* INSERT ... ON CONFLICT(date) DO UPDATE
Upsert(L, row) == {l \in L : l.date # row.date} \cup {row}

\* DELETE FROM logs WHERE date=?
Delete(L, d) == {l \in L : l.date # d}

RowOf(in) == [date |-> in.date, sleep |-> in.sleep, anxiety |-> in.anxiety,
              trained |-> in.trained]

\* a request is refused with 422 before it touches the store
WriterRejectWith(inputs, maxWrites) ==
    /\ wr.pc = "idle"
    /\ nWrites < maxWrites
    /\ \E in \in inputs :
         /\ ~Accepts(in)
         /\ wr' = [pc |-> "idle", op |-> in, status |-> 422]
    /\ nWrites' = nWrites + 1
    /\ UNCHANGED <<logs, goals, today, now, cache, storeLock, cacheLock, cfg, req,
                   nReq, okHist, fin, fout, ops>>

WriterReject == WriterRejectWith(WriterInputs, MaxWrites)

\* a request passes its checks and takes _lock
WriterLockWith(inputs, maxWrites) ==
    /\ wr.pc = "idle"
    /\ nWrites < maxWrites
    /\ storeLock = None
    /\ \E in \in inputs :
         /\ Accepts(in)
         /\ wr' = [pc |-> "locked", op |-> in, status |-> 0]
    /\ storeLock' = Writer
    /\ nWrites' = nWrites + 1
    /\ UNCHANGED <<logs, goals, today, now, cache, cacheLock, cfg, req,
                   nReq, okHist, fin, fout, ops>>

WriterLock == WriterLockWith(WriterInputs, MaxWrites)

\* the statement runs, commits, and the lock is released
WriterCommit ==
    LET in == wr.op
        mutates == in.op # "state"
    IN  /\ wr.pc = "locked"
        /\ storeLock = Writer
        /\ storeLock' = None
        /\ logs' = CASE in.op = "upsert" -> Upsert(logs, RowOf(in))
                     [] in.op = "delete" -> Delete(logs, in.date)
                     [] OTHER -> logs
        /\ goals' = IF in.op = "settings" THEN MergeGoals(in.goals) ELSE goals
        /\ wr' = [pc |-> "idle", op |-> in, status |-> 200]
        /\ okHist' = IF mutates THEN {} ELSE okHist
        /\ req' = IF mutates
                  THEN [p \in Coaches |->
                          IF Finished(req[p]) THEN req[p]
                          ELSE [req[p] EXCEPT !.stale = TRUE]]
                  ELSE req
        /\ ops' = IF in.op \in {"upsert", "delete"} THEN Append(ops, in) ELSE ops
        /\ UNCHANGED <<today, now, cache, cacheLock, cfg, nReq, nWrites, fin, fout>>

-----------------------------------------------------------------------------
(* The service *)

CoachStep(p) ==
    \/ CoachBegin(p)
    \/ CoachLockStore(p)
    \/ CoachLoad(p)
    \/ CoachReadClock(p)
    \/ CoachLockCacheGet(p)
    \/ CoachCacheGet(p)
    \/ CoachAttemptRejected(p)
    \/ CoachAttemptOk(p)
    \/ CoachAttemptHttpError(p)
    \/ CoachAttemptTransportError(p)
    \/ CoachWake(p)
    \/ CoachLockCacheSet(p)
    \/ CoachCacheSet(p)

\* One worker serves coach requests one after the other, in every environment
Init == InitWith({{}, Store(2..3), Store(1..4)}, Configs)
Next == CoachStep("c1")
Spec == Init /\ [][Next]_vars

\* ... while time passes and the date changes
InitCache == InitWith({Store(1..4), Store(1..13)}, {Env(TRUE, GoodModel, 0), Env(FALSE, GoodModel, 1)})
NextCache ==
    \/ CoachStep("c1")
    \/ Tick
    \/ NextDay
SpecCache == InitCache /\ [][NextCache]_vars

\* ... while logs and settings are written and read
InitStore == InitWith({Store(2..3), Store(1..4)}, {Env(TRUE, GoodModel, 0), Env(FALSE, GoodModel, 1)})
NextStore ==
    \/ CoachStep("c1")
    \/ WriterReject
    \/ WriterLock
    \/ WriterCommit
SpecStore == InitStore /\ [][NextStore]_vars

\* Two workers serve the same coach request up to three times, overlapping or
\* not, with a key and a valid model configured and no retries (the actions of
\* a rejected attempt and of a backoff are never enabled in this environment)
MaxConcReq == 3

ConcInputs == {[days |-> 14, max_items |-> 5, focus |-> "", include_notes |-> TRUE]}

ConcBegin(p) == CoachBeginWith(p, ConcInputs, MaxConcReq)

ConcStep(p) ==
    \/ ConcBegin(p)
    \/ CoachLockStore(p)
    \/ CoachLoad(p)
    \/ CoachReadClock(p)
    \/ CoachLockCacheGet(p)
    \/ CoachCacheGet(p)
    \/ CoachAttemptOk(p)
    \/ CoachAttemptHttpError(p)
    \/ CoachAttemptTransportError(p)
    \/ CoachLockCacheSet(p)
    \/ CoachCacheSet(p)

InitConc == InitWith({Store(1..4)}, {Env(TRUE, GoodModel, 0)})
NextConc ==
    \/ \E p \in Coaches : ConcStep(p)
    \/ Tick
    \/ NextDay
SpecConc == InitConc /\ [][NextConc]_vars

\* One worker serves requests of two keys while the clock moves to just before,
\* exactly at, or just after the TTL
MaxLookupReq == 3

LookupInputs ==
    {[days |-> 14, max_items |-> 60, focus |-> "",     include_notes |-> TRUE],
     [days |-> 14, max_items |-> 60, focus |-> "sono", include_notes |-> FALSE]}

LookupSteps == {SNIX_CACHE_TTL_SEC - 1, SNIX_CACHE_TTL_SEC, SNIX_CACHE_TTL_SEC + 1}

LookupBegin(p) == CoachBeginWith(p, LookupInputs, MaxLookupReq)

LookupStep(p) ==
    \/ LookupBegin(p)
    \/ CoachLockStore(p)
    \/ CoachLoad(p)
    \/ CoachReadClock(p)
    \/ CoachLockCacheGet(p)
    \/ CoachCacheGet(p)
    \/ CoachAttemptOk(p)
    \/ CoachAttemptHttpError(p)
    \/ CoachAttemptTransportError(p)
    \/ CoachLockCacheSet(p)
    \/ CoachCacheSet(p)

InitLookup == InitWith({Store(1..4)}, {Env(TRUE, GoodModel, 0)})
NextLookup ==
    \/ LookupStep("c1")
    \/ TickWith(LookupSteps)
SpecLookup == InitLookup /\ [][NextLookup]_vars

\* Two workers serve requests of one key while the clock moves in steps of
\* half the TTL
MaxHitReq == 3

HitSteps == {SNIX_CACHE_TTL_SEC \div 2, SNIX_CACHE_TTL_SEC \div 2 + 1}

HitBegin(p) == CoachBeginWith(p, ConcInputs, MaxHitReq)

HitStep(p) ==
    \/ HitBegin(p)
    \/ CoachLockStore(p)
    \/ CoachLoad(p)
    \/ CoachReadClock(p)
    \/ CoachLockCacheGet(p)
    \/ CoachCacheGet(p)
    \/ CoachAttemptOk(p)
    \/ CoachAttemptHttpError(p)
    \/ CoachAttemptTransportError(p)
    \/ CoachLockCacheSet(p)
    \/ CoachCacheSet(p)

InitHit == InitWith({Store(1..4)}, {Env(TRUE, GoodModel, 0)})
NextHit ==
    \/ \E p \in Coaches : HitStep(p)
    \/ TickWith(HitSteps)
SpecHit == InitHit /\ [][NextHit]_vars

\* Two workers serve coach requests while one client writes to or reads from
\* the store; each request, once arrived, keeps being scheduled: its thread
\* runs, a lock it waits for is handed over once it stays free, the HTTP call
\* returns or times out, and a backoff sleep ends. Nothing obliges a request
\* to arrive.
MaxLiveReq == 2
MaxLiveWrites == 1

LiveInputs == {[days |-> 14, max_items |-> 60, focus |-> "", include_notes |-> TRUE]}

LiveWrites == {in \in WriterInputs : in.op \in {"state", "delete"} \/ in.shape = "slash"}

LiveBegin(p) == CoachBeginWith(p, LiveInputs, MaxLiveReq)

\* the steps of a request that has arrived
CoachRun(p) ==
    \/ CoachLockStore(p)
    \/ CoachLoad(p)
    \/ CoachReadClock(p)
    \/ CoachLockCacheGet(p)
    \/ CoachCacheGet(p)
    \/ CoachAttemptRejected(p)
    \/ CoachAttemptOk(p)
    \/ CoachAttemptHttpError(p)
    \/ CoachAttemptTransportError(p)
    \/ CoachWake(p)
    \/ CoachLockCacheSet(p)
    \/ CoachCacheSet(p)

InitLive == InitWith({Store(2..3), Store(1..4)},
                     {Env(TRUE, GoodModel, 1), Env(FALSE, GoodModel, 1)})
NextLive ==
    \/ \E p \in Coaches : LiveBegin(p)
    \/ \E p \in Coaches : CoachRun(p)
    \/ WriterRejectWith(LiveWrites, MaxLiveWrites)
    \/ WriterLockWith(LiveWrites, MaxLiveWrites)
    \/ WriterCommit
Fairness ==
    /\ \A p \in Coaches : WF_vars(CoachRun(p))
    /\ WF_vars(WriterCommit)
SpecLive == InitLive /\ [][NextLive]_vars /\ Fairness

\* One worker serves coach requests while logs and settings are written and
\* the clock moves
InitStale == InitWith({Store(2..3), Store(1..4)}, {Env(TRUE, GoodModel, 0), Env(FALSE, GoodModel, 1)})
NextStale ==
    \/ CoachStep("c1")
    \/ WriterReject
    \/ WriterLock
    \/ WriterCommit
    \/ TickWith(LookupSteps)
SpecStale == InitStale /\ [][NextStale]_vars

\* Only /logs requests, several in a row
MaxStoreOps == 3

LogRequest(op, shape, d, sleep, anxiety, trained) ==
    [op |-> op, shape |-> shape, date |-> d, sleep |-> sleep, anxiety |-> anxiety,
     trained |-> trained, goals |-> <<>>]

LogInputs ==
    {LogRequest("upsert", "dash", d, 8, 9, TRUE) : d \in {2, 5, BadDate}} \cup
    {LogRequest("upsert", "dash", d, 6, 2, FALSE) : d \in {2, 5}} \cup
    {LogRequest("delete", "dash", d, 0, 0, FALSE) : d \in {2, 5}} \cup
    {LogRequest("upsert", "slash", 5, 6, 2, FALSE),
     LogRequest("upsert", "dash", 5, 6, 11, FALSE),
     LogRequest("delete", "slash", 2, 0, 0, FALSE)}

InitialRows == Store(2..3)

InitWrites == InitWith({InitialRows}, {Env(TRUE, GoodModel, 0)})
NextWrites ==
    \/ WriterRejectWith(LogInputs, MaxStoreOps)
    \/ WriterLockWith(LogInputs, MaxStoreOps)
    \/ WriterCommit
SpecWrites == InitWrites /\ [][NextWrites]_vars

\* Settings are saved, with payloads of every kind, while one worker serves
\* coach requests
MaxSettings == 2
MaxSettingsReq == 2

SettingsRequest(g) ==
    [op |-> "settings", shape |-> "dash", date |-> 0, sleep |-> 0, anxiety |-> 0,
     trained |-> FALSE, goals |-> g]

GoalPayloads ==
    {<<>>,
     [sleepMin |-> JNum(75), anxietyMax |-> JNum(45)],
     [sleepMin |-> JNull, workoutsPerWeek |-> JStr, foodTarget |-> JNumStr(50),
      anxietyMax |-> JNumStr(25)],
     [sleepMin |-> JNumStr(65), anxietyMax |-> JBool(TRUE), theme |-> JStr],
     [workoutsPerWeek |-> JInt(5), anxietyMax |-> JNum(-15)],
     [sleepMin |-> JInt(8), workoutsPerWeek |-> JInt(4), foodTarget |-> JInt(3),
      anxietyMax |-> JInt(2)]}

SettingsInputs ==
    {SettingsRequest(g) : g \in GoalPayloads} \cup
    {[op |-> "state", shape |-> "dash", date |-> 0, sleep |-> 0, anxiety |-> 0,
      trained |-> FALSE, goals |-> <<>>]}

SettingsBegin(p) == CoachBeginWith(p, ConcInputs, MaxSettingsReq)

SettingsStep(p) ==
    \/ SettingsBegin(p)
    \/ CoachLockStore(p)
    \/ CoachLoad(p)
    \/ CoachReadClock(p)
    \/ CoachLockCacheGet(p)
    \/ CoachCacheGet(p)
    \/ CoachAttemptOk(p)
    \/ CoachAttemptHttpError(p)
    \/ CoachAttemptTransportError(p)
    \/ CoachLockCacheSet(p)
    \/ CoachCacheSet(p)

InitSettings == InitWith({Store(1..4)}, {Env(TRUE, GoodModel, 0)})
NextSettings ==
    \/ SettingsStep("c1")
    \/ WriterLockWith(SettingsInputs, MaxSettings)
    \/ WriterCommit
SpecSettings == InitSettings /\ [][NextSettings]_vars

\* One worker serves requests of three window lengths over tables with gaps
\* between their dates
MaxShapeReq == 2

ShapeDates == {1, 2, 3, 4, 5, 7}

ShapeInputs ==
    {[days |-> 1,  max_items |-> 60, focus |-> "", include_notes |-> TRUE],
     [days |-> 4,  max_items |-> 60, focus |-> "", include_notes |-> TRUE],
     [days |-> 14, max_items |-> 60, focus |-> "", include_notes |-> TRUE]}

ShapeBegin(p) == CoachBeginWith(p, ShapeInputs, MaxShapeReq)

ShapeStep(p) ==
    \/ ShapeBegin(p)
    \/ CoachLockStore(p)
    \/ CoachLoad(p)
    \/ CoachReadClock(p)
    \/ CoachLockCacheGet(p)
    \/ CoachCacheGet(p)
    \/ CoachAttemptOk(p)
    \/ CoachAttemptHttpError(p)
    \/ CoachAttemptTransportError(p)
    \/ CoachLockCacheSet(p)
    \/ CoachCacheSet(p)

InitShape == InitWith({Store(D) : D \in SUBSET ShapeDates}, {Env(TRUE, GoodModel, 0)})
NextShape == ShapeStep("c1")
SpecShape == InitShape /\ [][NextShape]_vars

-----------------------------------------------------------------------------
(* The Window Selector on its own *)

WindowDates == (1..5) \cup {BadDate}
WindowDays == {MIN_DAYS, 4, MAX_DAYS}

InitWindow ==
    /\ logs = {} /\ goals = DEFAULT_GOALS /\ today = 3 /\ now = 0 /\ cache = {}
    /\ storeLock = None /\ cacheLock = None /\ cfg = Env(TRUE, GoodModel, 0)
    /\ req = [p \in Coaches |-> IdleReq]
    /\ wr = [pc |-> "idle", op |-> None, status |-> 0]
    /\ nReq = 0 /\ nWrites = 0 /\ okHist = {} /\ ops = <<>>
    /\ \E D \in SUBSET WindowDates, n \in WindowDays, t \in 2..MaxToday :
         fin = [logs_desc |-> SetToDesc(Store(D)), days |-> n, today |-> t]
    /\ fout = NoOutput

\* _select_window_from_logs(logs_desc, days) on a day today
WindowApply ==
    /\ ~fout.applied
    /\ fout' = [applied |-> TRUE, sel |-> SelectWindow(fin.logs_desc, fin.days, fin.today)]
    /\ UNCHANGED <<logs, goals, today, now, cache, storeLock, cacheLock, cfg, req, wr,
                   nReq, nWrites, okHist, fin, ops>>

SpecWindow == InitWindow /\ [][WindowApply]_vars

-----------------------------------------------------------------------------
(* The Statistics Engine on its own *)

MaxWindow == 4
AnxietyLevels == {4, 6, 7}
AnxietyLimits == {4, 6}

\* the windows of 1 to MaxWindow rows on consecutive days, oldest first
StatsWindows ==
    UNION {{[i \in 1..n |-> [date |-> i, sleep |-> 6, anxiety |-> f[i][1], trained |-> f[i][2]]] :
              f \in [1..n -> AnxietyLevels \X BOOLEAN]} : n \in 1..MaxWindow}

InitStats ==
    /\ logs = {} /\ goals = DEFAULT_GOALS /\ today = 3 /\ now = 0 /\ cache = {}
    /\ storeLock = None /\ cacheLock = None /\ cfg = Env(TRUE, GoodModel, 0)
    /\ req = [p \in Coaches |-> IdleReq]
    /\ wr = [pc |-> "idle", op |-> None, status |-> 0]
    /\ nReq = 0 /\ nWrites = 0 /\ okHist = {} /\ ops = <<>>
    /\ \E w \in StatsWindows, a \in AnxietyLimits :
         fin = [goals |-> [DEFAULT_GOALS EXCEPT !.anxietyMax = a], window |-> w]
    /\ fout = [applied |-> FALSE, stats |-> NoFigures]

\* _summarize_window(goals, window)
StatsApply ==
    /\ ~fout.applied
    /\ fout' = [applied |-> TRUE, stats |-> Summarize(fin.goals, fin.window)]
    /\ UNCHANGED <<logs, goals, today, now, cache, storeLock, cacheLock, cfg, req, wr,
                   nReq, nWrites, okHist, fin, ops>>

SpecStats == InitStats /\ [][StatsApply]_vars

-----------------------------------------------------------------------------
(* Claims *)

\* the rows of the input dated on or before the day of the call
PastRows(in) == {l \in SeqRange(in.logs_desc) : l.date \in 1..MaxDay /\ l.date <= in.today}

\* C10: when the input holds at least 3 rows dated on or before the current date,
\* the window holds no row dated after it and used_past_only is true; a row
\* dated after the current date is in the window only when fewer than 3 such
\* rows exist, and then used_past_only is false.
C10_PastOnlyWindow ==
    fout.applied =>
        /\ Cardinality(PastRows(fin)) >= 3 =>
             /\ fout.sel.ok
             /\ fout.sel.used_past_only
             /\ \A l \in SeqRange(fout.sel.window) : l.date <= fin.today
        /\ (fout.sel.ok /\ \E l \in SeqRange(fout.sel.window) : l.date > fin.today) =>
             /\ Cardinality(PastRows(fin)) < 3
             /\ ~fout.sel.used_past_only

\* a call on 3 past rows, today's among them, and a future row
C10_Witness ==
    /\ fout.applied
    /\ Cardinality(PastRows(fin)) = 3
    /\ \E l \in SeqRange(fin.logs_desc) : l.date = fin.today
    /\ \E l \in SeqRange(fin.logs_desc) : l.date \in 1..MaxDay /\ l.date > fin.today
    /\ Len(fout.sel.window) = 3

-----------------------------------------------------------------------------
(* Claims about the coach *)

\* the gateway call of the request ended in an error
GatewayFailed(r) == r.why \in {"fallback", "upstream"}

\* the final error carries status 429 or a resource-exhaustion marker
QuotaLike(e) == (e.src = "http" /\ e.code = 429) \/ e.body \in QuotaMarkers

\* the statistics a successful call would have returned for the request
StatsOfSuccess(r) == SuccessResult(r, CHOOSE o \in OkOutcomes : TRUE, cfg).stats

\* C1: a request whose gateway call ends in a quota error does not fail: its
\* result is ok, names the model "offline-fallback", and its report restates
\* avg_sleep, avg_anxiety and high_anxiety_days of the statistics a successful
\* call would have returned.
C1_QuotaFallsBack ==
    \A p \in Coaches :
        LET r == req[p]
        IN  (GatewayFailed(r) /\ QuotaLike(r.last_err)) =>
              /\ r.pc \in {"setwait", "setlocked", "done"}
              /\ r.result.ok
              /\ r.result.model = OFFLINE_MODEL
              /\ r.result.report.kind = "fallback"
              /\ r.result.report.figures.avg_sleep = StatsOfSuccess(r).avg_sleep
              /\ r.result.report.figures.avg_anxiety = StatsOfSuccess(r).avg_anxiety
              /\ r.result.report.figures.high_anxiety_days =
                     StatsOfSuccess(r).high_anxiety_days
              /\ r.result.stats.avg_sleep = Summarize(r.goals, r.sel.window).avg_sleep

\* a request returned the fallback after 503s carrying the marker used up the retries
C1_Witness ==
    \E p \in Coaches :
        /\ req[p].pc = "done"
        /\ req[p].why = "fallback"
        /\ req[p].last_err.code = 503
        /\ req[p].attempt = 2
        /\ req[p].result.report.figures.high_anxiety_days > 0

\* C7: a request whose load returns no rows, or whose window holds fewer than
\* 3 rows, fails with 422 without any upstream call, fallback, cache eviction
\* or cache write.
C7_InsufficientDataFails ==
    \A p \in Coaches :
        LET r == req[p]
            w == SelectWindow(r.logs_desc, r.days, r.day)
        IN  (/\ r.pc \notin {"idle", "enter", "locked"}
             /\ r.logs_desc = <<>> \/ (w.ok /\ Len(w.window) < 3)) =>
              /\ r.pc = "failed"
              /\ r.status = 422
              /\ r.calls = 0
              /\ ~GatewayFailed(r)
              /\ ~r.evicted
              /\ ~r.wrote

\* a request failed on a window of two rows
C7_Witness ==
    \E p \in Coaches :
        /\ req[p].pc = "failed"
        /\ Len(req[p].logs_desc) = 2
        /\ req[p].sel.ok
        /\ Len(req[p].sel.window) = 2

\* the upstream call of the request answered with a block reason or no text
BlockedOrEmpty(r) == r.why = "llm" /\ (r.out.block # None \/ r.out.text = "")

\* C8: when the upstream call answers with a content-block reason or with empty
\* text, the result is ok, names the validated configured model (not
\* "offline-fallback"), its report is the notice for that condition, and once
\* the request has returned the cache holds that result under the request's key.
C8_BlockedOrEmptyIsSuccess ==
    \A p \in Coaches :
        LET r == req[p]
        IN  BlockedOrEmpty(r) =>
              /\ r.pc \in {"setwait", "setlocked", "done"}
              /\ r.result.ok
              /\ r.result.model = ValidateModel(cfg.model).name
              /\ r.result.model # OFFLINE_MODEL
              /\ r.result.report.kind =
                     (IF r.out.block # None THEN "blocked" ELSE "empty")
              /\ r.pc = "done" =>
                     /\ r.wrote
                     /\ \E e \in cache : e.key = r.key /\ e.value = r.result

\* a request returned the notice for a blocked answer and its result is cached
C8_Witness ==
    \E p \in Coaches :
        /\ req[p].pc = "done"
        /\ BlockedOrEmpty(req[p])
        /\ req[p].out.block # None
        /\ req[p].result.report.kind = "blocked"

\* C2 as stated: a request whose gateway call ends in an error that is not a
\* quota error fails, produces no result and no fallback, and has neither
\* written to the cache nor evicted anything from it.
C2_FailureLeavesCacheAsItWas ==
    \A p \in Coaches :
        LET r == req[p]
        IN  (GatewayFailed(r) /\ ~QuotaLike(r.last_err)) =>
              /\ r.pc = "failed"
              /\ r.why = "upstream"
              /\ r.result = None
              /\ ~r.wrote
              /\ ~r.evicted

\* C2, amended: such a request fails with 502, produces no result and no
\* fallback, and writes nothing to the cache; the one change it may have made
\* is the eviction, at its lookup, of the expired entry under its own key.
C2_FailureWritesNoCache ==
    \A p \in Coaches :
        LET r == req[p]
        IN  (GatewayFailed(r) /\ ~QuotaLike(r.last_err)) =>
              /\ r.pc = "failed"
              /\ r.why = "upstream"
              /\ r.status = 502
              /\ r.result = None
              /\ ~r.wrote
              /\ r.evicted => Entries(cache, r.key) = {}

\* a request evicted the expired entry of its key and then failed upstream
C2_Witness ==
    \E p \in Coaches :
        /\ req[p].pc = "failed"
        /\ req[p].why = "upstream"
        /\ req[p].last_err.src = "http"
        /\ req[p].last_err.code = 500
        /\ req[p].evicted

\* the request has got past its cache lookup, or ended before it
PastLookup(r) ==
    r.pc \in {"calling", "sleeping", "setwait", "setlocked", "done", "failed"}

\* request r starts after the ok result h was returned, asks for the same days,
\* focus and include_notes over the same data, and looks the cache up less
\* than the TTL after h was stored
Repeats(r, h) ==
    /\ PastLookup(r)
    /\ ~r.stale
    /\ h.seq < r.id
    /\ h.days = r.days /\ h.focus = r.focus /\ h.notes = r.notes
    /\ r.tnow - h.ts < SNIX_CACHE_TTL_SEC

\* r returned the report and the statistics of h without an upstream call
ServedFrom(r, h) ==
    /\ r.pc = "done"
    /\ r.calls = 0
    /\ r.result.report = h.result.report
    /\ r.result.stats = h.result.stats

\* C3 as stated: a request that repeats an earlier ok request within the TTL
\* over unchanged data returns that request's report and statistics and makes
\* no upstream call.
C3_CacheIdempotence ==
    \A p \in Coaches : \A h \in okHist :
        Repeats(req[p], h) => ServedFrom(req[p], h)

\* C3, amended: the same, for a repeat that also has the same max_items and is
\* served on the same current date as the first, when no other request has
\* overwritten or evicted the entry of that key since the first one returned.
C3_CacheIdempotenceSameDay ==
    \A p \in Coaches : \A h \in okHist :
        (/\ Repeats(req[p], h)
         /\ h.max_items = req[p].max_items
         /\ h.day = req[p].day
         /\ h.by \subseteq {req[p].id}) => ServedFrom(req[p], h)

\* a repeat was served from the cache after the clock had moved by the TTL
C3_Witness ==
    \E p \in Coaches : \E h \in okHist :
        /\ Repeats(req[p], h)
        /\ h.max_items = req[p].max_items
        /\ h.day = req[p].day
        /\ h.by \subseteq {req[p].id}
        /\ req[p].why = "cached"
        /\ req[p].tnow - h.ts > 0
        /\ h.result.model # OFFLINE_MODEL

\* C4 as stated: at most retries + 1 HTTP calls; a further attempt only after
\* a 429, 500 or 503 response or a transport-level error; any other HTTP status
\* ends the call after that attempt; a successful response ends it at once.
C4_RetryBudget ==
    \A p \in Coaches :
        LET r == req[p]
            e == r.last_err
        IN  /\ r.calls <= cfg.retries + 1
            /\ r.pc = "sleeping" =>
                 \/ e.src = "http" /\ e.code \in {429, 500, 503}
                 \/ e.src = "url"
                 \/ e.src = "exc" /\ e.code = 0
            /\ (GatewayFailed(r) /\ e.src = "http" /\ e.code \notin {429, 500, 503}) =>
                 r.calls = r.attempt + 1
            /\ r.why = "llm" => r.pc \in {"setwait", "setlocked", "done"}

\* C5 as stated: with a missing key or a rejected model name, generate fails on
\* its first attempt: no backoff sleep and no second attempt, whatever the
\* retry budget.
C5_NoRetryOnValidation ==
    \A p \in Coaches :
        PreflightStatus(cfg) # 200 =>
            /\ req[p].pc # "sleeping"
            /\ req[p].attempt = 0

\* C6 as stated: a request that fails on a missing key or a rejected model name
\* surfaces with the validator's status (503 or 422), never with 502.
C6_CategoryPreserved ==
    \A p \in Coaches :
        LET r == req[p]
        IN  (r.pc = "failed" /\ r.last_err.src = "exc" /\ PreflightStatus(cfg) # 200) =>
              /\ r.status = PreflightStatus(cfg)
              /\ r.status # 502

\* C9: a request that is in an upstream call or in a backoff sleep holds
\* neither the store lock nor the cache lock, so the store lock is free for
\* any other request unless such a request is holding it.
C9_NoLockDuringCall ==
    \A p \in Coaches :
        req[p].pc \in {"calling", "sleeping"} =>
            /\ storeLock # p
            /\ cacheLock # p
            /\ wr.pc # "locked" => storeLock = None

\* a write to the store is under way while a request sleeps between attempts
C9_Witness ==
    \E p \in Coaches :
        /\ req[p].pc = "sleeping"
        /\ wr.pc = "locked"
        /\ storeLock = Writer

-----------------------------------------------------------------------------
(* Claims about the store *)

AllDates == (1..MaxDay) \cup {BadDate}

\* the committed operations on date d, as positions in ops
OpsOn(d) == {i \in 1..Len(ops) : ops[i].date = d}

\* the last committed operation on date d
LastOn(d) == ops[CHOOSE i \in OpsOn(d) : \A j \in OpsOn(d) : j <= i]

\* row l holds what request o sent
HoldsPayload(l, o) ==
    /\ l.date = o.date
    /\ l.sleep = o.sleep
    /\ l.anxiety = o.anxiety
    /\ l.trained = o.trained

\* C11: after any sequence of accepted upserts and deletes the store holds at
\* most one row per date; the row of a date is the payload of the last upsert
\* of that date unless a delete of that date followed it, and a date no
\* operation was made on keeps the row it had.
C11_LastWriteWins ==
    /\ \A l \in logs : l.date \in AllDates
    /\ \A d \in AllDates :
         LET rows == {l \in logs : l.date = d}
         IN  /\ Cardinality(rows) <= 1
             /\ OpsOn(d) = {} => rows = {l \in InitialRows : l.date = d}
             /\ (OpsOn(d) # {} /\ LastOn(d).op = "delete") => rows = {}
             /\ (OpsOn(d) # {} /\ LastOn(d).op = "upsert") =>
                    /\ Cardinality(rows) = 1
                    /\ \A l \in rows : HoldsPayload(l, LastOn(d))

\* the row of a date was written twice, with different payloads, and the
\* row of another date is still there
C11_Witness ==
    /\ Len(ops) = 2
    /\ ops[1].op = "upsert" /\ ops[2].op = "upsert"
    /\ ops[1].date = 2 /\ ops[2].date = 2
    /\ ops[1].sleep # ops[2].sleep
    /\ \E l \in logs : l.date = 3

\* the date string of request o has the YYYY-MM-DD shape and spells a calendar date
WellFormedDate(o) == o.shape = "dash" /\ IsCalendar(o.date)

\* C12 as stated: an upsert whose date is not a well-formed calendar date is
\* refused with a validation error, so every row of the store has a date that
\* parses.
C12_MalformedDatesRejected ==
    /\ \A l \in logs : IsCalendar(l.date)
    /\ (/\ wr.pc = "idle"
        /\ wr.status # 0
        /\ wr.op.op = "upsert"
        /\ ~WellFormedDate(wr.op)) => wr.status = 422

-----------------------------------------------------------------------------
(* Claims about the response cache *)

\* worker p makes its cache lookup in this step
LooksUp(p) == req[p].pc = "getlocked" /\ req'[p].pc # "getlocked"

\* the entries of the other keys are the same before and after the step
OtherKeysKept(key) ==
    {e \in cache : e.key # key} = {e \in cache' : e.key # key}

\* C13: a lookup of a key whose entry is older than the TTL (by the clock the
\* lookup read) answers absent and removes that entry; a lookup of a key whose
\* entry is not older than the TTL answers the stored result and leaves the
\* cache as it is; no lookup changes the entry of another key.
C13_LookupHonoursTtl ==
    [][\A p \in Coaches :
         LooksUp(p) =>
            LET r     == req[p]
                found == Entries(cache, r.key)
            IN  /\ OtherKeysKept(r.key)
                /\ found = {} => req'[p].pc = "calling" /\ cache' = cache
                /\ \A e \in found :
                     /\ r.tnow - e.ts > SNIX_CACHE_TTL_SEC =>
                          /\ req'[p].pc = "calling"
                          /\ Entries(cache', r.key) = {}
                     /\ r.tnow - e.ts <= SNIX_CACHE_TTL_SEC =>
                          /\ req'[p].pc = "done"
                          /\ req'[p].result = e.value
                          /\ req'[p].calls = 0
                          /\ cache' = cache]_vars

\* a lookup made one second after the TTL has just evicted the entry of its
\* key, and the entry of another key, as old, is still in the cache
C13_Witness ==
    \E p \in Coaches :
        /\ req[p].pc = "calling"
        /\ req[p].evicted
        /\ req[p].tnow = SNIX_CACHE_TTL_SEC + 1
        /\ Entries(cache, req[p].key) = {}
        /\ \E e \in cache : e.key # req[p].key /\ e.ts = 0

\* the worker of /logs, /settings and /state takes a step
StoreRequestSteps == wr' # wr

\* C14: no step of an upsert_log, delete_log or save_settings request changes
\* the cache, and a result served from the cache is that of an entry written
\* no more than the TTL before the lookup, whatever has been written to the
\* store since.
C14_WritesKeepCache ==
    [][/\ StoreRequestSteps => cache' = cache
       /\ \A p \in Coaches :
            (LooksUp(p) /\ req'[p].pc = "done") =>
               \E e \in cache :
                  /\ e.key = req[p].key
                  /\ e.value = req'[p].result
                  /\ req[p].tnow - e.ts <= SNIX_CACHE_TTL_SEC]_vars

\* a request was served, exactly TTL after the entry was written, a result
\* whose workouts count is no longer that of the logs it has just loaded
C14_Witness ==
    \E p \in Coaches :
        /\ req[p].pc = "done"
        /\ req[p].why = "cached"
        /\ req[p].tnow = SNIX_CACHE_TTL_SEC
        /\ Len(ops) = 1
        /\ req[p].result.stats.workouts # req[p].stats.workouts


-----------------------------------------------------------------------------
(* The fallback is observable *)

\* every coach result that exists: the ones requests hold and the cached ones
HeldResults == {req[p].result : p \in {q \in Coaches : req[q].why \in {"llm", "fallback"}}}
CachedResults == {e.value : e \in cache}

MarkedFallback(x) == x.stats.llm_meta.error = "quota_exhausted"

\* C15: a result names the model "offline-fallback" exactly when its llm_meta
\* carries error = "quota_exhausted"; a result built from an upstream answer
\* carries the validated configured model name and the answer's own meta
\* (block reason, finish reason) instead.
C15_FallbackObservable ==
    /\ \A x \in HeldResults \cup CachedResults :
          (x.model = OFFLINE_MODEL) <=> MarkedFallback(x)
    /\ \A p \in Coaches :
          /\ req[p].why = "llm" =>
                /\ req[p].result.model = ValidateModel(cfg.model).name
                /\ req[p].result.model # OFFLINE_MODEL
                /\ req[p].result.stats.llm_meta.error = None
                /\ req[p].result.stats.llm_meta.block_reason = req[p].out.block
                /\ req[p].result.stats.llm_meta.finish_reason = req[p].out.finish
          /\ req[p].why = "fallback" =>
                /\ req[p].result.model = OFFLINE_MODEL
                /\ MarkedFallback(req[p].result)

\* a fallback result and an upstream result are both in the cache, and a
\* request has been answered with an upstream result that has a finish reason
C15_Witness ==
    /\ \E x \in CachedResults : x.model = OFFLINE_MODEL
    /\ \E x \in CachedResults : x.model # OFFLINE_MODEL
    /\ \E p \in Coaches :
          /\ req[p].pc = "done"
          /\ req[p].why = "llm"
          /\ req[p].out.finish = "STOP"



-----------------------------------------------------------------------------
(* Fallback results in the cache *)

\* the request has computed its cache key and is past its cache lookup
KeyedPastLookup(r) ==
    \/ r.pc \in {"calling", "sleeping", "setwait", "setlocked", "done"}
    \/ r.pc = "failed" /\ r.why = "upstream"

\* h is a fallback result that was returned and stored before request r began;
\* r has the key of h and looks the cache up within the TTL of h
RepeatsFallback(r, h) ==
    /\ h.result.model = OFFLINE_MODEL
    /\ h.seq < r.id
    /\ KeyedPastLookup(r)
    /\ r.key = h.key
    /\ r.tnow - h.ts <= SNIX_CACHE_TTL_SEC

\* r returned exactly the result h without an upstream call
ReturnsStored(r, h) ==
    /\ r.pc = "done"
    /\ r.calls = 0
    /\ r.result = h.result

\* the entry written for h is still the entry of its key
HoldsEntry(h) == [key |-> h.key, ts |-> h.ts, value |-> h.result] \in cache

\* C16 as stated: a fallback result is in the cache under its key once it is
\* returned, and every later request with that key within the TTL returns that
\* same fallback result without an upstream call.
C16_FallbackCached ==
    /\ \A h \in okHist : (h.result.model = OFFLINE_MODEL /\ h.by = {}) => HoldsEntry(h)
    /\ \A p \in Coaches : \A h \in okHist :
          RepeatsFallback(req[p], h) => ReturnsStored(req[p], h)

\* C16, amended: the same, as long as no other request has overwritten or
\* evicted the entry of that key since the fallback result was stored (a request
\* that missed the cache before the fallback was stored does so when it ends).
C16_FallbackCachedUntilReplaced ==
    /\ \A h \in okHist : (h.result.model = OFFLINE_MODEL /\ h.by = {}) => HoldsEntry(h)
    /\ \A p \in Coaches : \A h \in okHist :
          (RepeatsFallback(req[p], h) /\ h.by \subseteq {req[p].id}) =>
              ReturnsStored(req[p], h)

\* a later request was answered with the stored fallback result when the clock
\* had moved to one second before the TTL
C16_Witness ==
    \E p \in Coaches : \E h \in okHist :
        /\ RepeatsFallback(req[p], h)
        /\ h.by = {}
        /\ HoldsEntry(h)
        /\ req[p].why = "cached"
        /\ req[p].result.model = OFFLINE_MODEL
        /\ req[p].tnow - h.ts = SNIX_CACHE_TTL_SEC - 1



-----------------------------------------------------------------------------
(* Future-dated rows *)

\* a row the window selection files under "future": d > today
IsFutureRow(l, t) == IsCalendar(l.date) /\ ~PastOrToday(l.date, t)

\* the rows the request loaded hold a future-dated one
LoadedFuture(r) == \E i \in 1..Len(r.logs_desc) : IsFutureRow(r.logs_desc[i], r.day)

\* the request computed its result itself: from an answer of the model (text,
\* blocked or empty) or through the fallback report
FreshResult(r) ==
    /\ r.pc \in {"setwait", "setlocked", "done"}
    /\ r.why \in {"llm", "fallback"}

\* the statistics the request would compute over the table without its
\* future-dated rows
SameWithoutFuture(r) ==
    LET rows == Take(SetToDesc({l \in logs : ~IsFutureRow(l, r.day)}), r.max_items)
        sel  == SelectWindow(rows, r.days, r.day)
    IN  /\ sel.ok
        /\ r.stats = Summarize(r.goals, sel.window)

\* C17, the note: a fresh ok result over loaded rows that hold a future-dated
\* one carries the advisory note on future dates in its report.
C17_FutureNoted ==
    \A p \in Coaches :
        (FreshResult(req[p]) /\ LoadedFuture(req[p])) => req[p].result.report.future_note

\* C17, the figures: such a result has the statistics it would have without the
\* future-dated rows in the table.
C17_FutureNotAnalysed ==
    \A p \in Coaches :
        (FreshResult(req[p]) /\ LoadedFuture(req[p])) => SameWithoutFuture(req[p])

\* C17: a fresh ok result over loaded rows that hold a future-dated one carries
\* the advisory note in its report, and its statistics are the ones it would
\* have without the future-dated rows.
C17_FutureAnnotatedNotAnalysed == C17_FutureNoted /\ C17_FutureNotAnalysed



-----------------------------------------------------------------------------
(* Goals *)

\* lines 729-734: the goals GET /state returns
GetStateGoals == MergeGoals(StoredGoals(goals))

\* all four fields, each a number
Complete(g) == DOMAIN g = GoalKeys /\ \A k \in GoalKeys : g[k] \in -100..1000

\* n is int(x): x is a number or a boolean and n is x without its fraction, or x
\* is a string that spells the whole number n
IsIntOf(x, n) ==
    \/ /\ x.t \in {"num", "bool"}
       /\ IF x.v >= 0 THEN 10 * n <= x.v /\ x.v < 10 * n + 10
          ELSE 10 * n >= x.v /\ x.v > 10 * n - 10
       /\ (n = 0 \/ (n > 0) = (x.v > 0))
    \/ x.t = "numstr" /\ x.v = 10 * n

\* f (in tenths) is float(x)
IsFloatOf(x, f) == x.t \in {"num", "bool", "numstr"} /\ f = x.v

IsCoercionOf(k, x, v) == IF k = "sleepMin" THEN IsFloatOf(x, v) ELSE IsIntOf(x, v)

\* field k of g is the coerced value payload supplies for k if there is one,
\* and the default otherwise
FieldFollows(g, k, payload) ==
    IF k \in DOMAIN payload /\ \E v \in -100..1000 : IsCoercionOf(k, payload[k], v)
    THEN IsCoercionOf(k, payload[k], g[k])
    ELSE g[k] = DEFAULT_GOALS[k]

\* the last request was a PUT /settings that has returned
SettingsSaved == wr.pc = "idle" /\ wr.status = 200 /\ wr.op.op = "settings"

\* the request has read the goals and nothing was saved since
HoldsGoals(r) ==
    /\ r.pc \in {"keyed", "getwait", "getlocked", "calling", "sleeping", "setwait", "setlocked"}
    /\ ~r.stale

\* C18: the goals get_state returns and the goals the coach uses hold all four
\* fields, none null; after a save_settings call each field is the coerced
\* value the payload supplied if it coerces, and the default otherwise,
\* whatever was stored before.
C18_GoalsComplete ==
    /\ Complete(goals)
    /\ Complete(GetStateGoals)
    /\ GetStateGoals = goals
    /\ nWrites = 0 => GetStateGoals = DEFAULT_GOALS
    /\ SettingsSaved => \A k \in GoalKeys : FieldFollows(GetStateGoals, k, wr.op.goals)
    /\ \A p \in Coaches :
          /\ req[p].pc \notin {"idle", "enter", "locked"} => Complete(req[p].goals)
          /\ HoldsGoals(req[p]) => req[p].goals = GetStateGoals

\* a second save, with a payload of a null, a word, "5" and "2.5", has replaced
\* goals that an earlier save had moved off the defaults, and a coach request
\* has read them
C18_Witness ==
    /\ SettingsSaved
    /\ nWrites = 2
    /\ wr.op.goals = [sleepMin |-> JNull, workoutsPerWeek |-> JStr,
                       foodTarget |-> JNumStr(50), anxietyMax |-> JNumStr(25)]
    /\ goals = [sleepMin |-> 70, workoutsPerWeek |-> 3, foodTarget |-> 5, anxietyMax |-> 6]
    /\ req["c1"].pc = "calling"
    /\ req["c1"].goals = goals
    /\ req["c1"].id = 2



-----------------------------------------------------------------------------
(* Statistics *)

RECURSIVE SumAt(_, _)
\* the anxiety of the rows of w at the indices I, added up
SumAt(w, I) ==
    IF I = {} THEN 0
    ELSE LET i == CHOOSE j \in I : TRUE
         IN  w[i].anxiety + SumAt(w, I \ {i})

TrainedAt(w) == {i \in 1..Len(w) : w[i].trained}
UntrainedAt(w) == {i \in 1..Len(w) : ~w[i].trained}

Abs(x) == IF x >= 0 THEN x ELSE -x

\* v thousandths is a nearest thousandth to num/den
NearestThousandth(v, num, den) == 2 * Abs(1000 * num - v * den) <= den

\* C19: for a non-empty window train_effect is absent exactly when all rows have
\* the same trained value; otherwise it is the mean anxiety of the rows with
\* trained = false minus the mean anxiety of the rows with trained = true,
\* rounded to 3 decimals.
C19_TrainEffect ==
    fout.applied =>
        LET w  == fin.window
            T  == TrainedAt(w)
            N  == UntrainedAt(w)
            te == fout.stats.train_effect
        IN  /\ te.present <=> (T # {} /\ N # {})
            /\ ~te.present <=> (\A i, j \in 1..Len(w) : w[i].trained = w[j].trained)
            /\ te.present =>
                  NearestThousandth(te.v,
                                    SumAt(w, N) * Cardinality(T) - SumAt(w, T) * Cardinality(N),
                                    Cardinality(N) * Cardinality(T))

\* a window with days of both kinds whose difference of means is negative and
\* no whole number of thousandths before rounding (4 - 20/3 = -2.667)
C19_Witness ==
    /\ fout.applied
    /\ fout.stats.train_effect.present
    /\ fout.stats.train_effect.v = -2667
    /\ Cardinality(TrainedAt(fin.window)) = 3

\* C20: high_anxiety_days is the number of rows whose anxiety is strictly greater
\* than goals.anxietyMax, peak_anxiety is the maximum anxiety of the window, and
\* peak_date is the date of the first row in window order that attains it.
C20_HighDaysAndPeak ==
    fout.applied =>
        LET w  == fin.window
            st == fout.stats
        IN  /\ st.high_anxiety_days =
                  Cardinality({i \in 1..Len(w) : w[i].anxiety > fin.goals.anxietyMax})
            /\ \A i \in 1..Len(w) : w[i].anxiety <= st.peak_anxiety
            /\ \E i \in 1..Len(w) :
                  /\ w[i].anxiety = st.peak_anxiety
                  /\ w[i].date = st.peak_date
                  /\ \A j \in 1..(i - 1) : w[j].anxiety < st.peak_anxiety

\* a window in which a row sits exactly at the ceiling and is not counted, and
\* the maximum is attained on two days, the second and the fourth
C20_Witness ==
    /\ fout.applied
    /\ Len(fin.window) = 4
    /\ fin.goals.anxietyMax = 6
    /\ fin.window[1].anxiety = 6
    /\ fin.window[2].anxiety = 7
    /\ fin.window[3].anxiety = 4
    /\ fin.window[4].anxiety = 7
    /\ fout.stats.high_anxiety_days = 2
    /\ fout.stats.peak_anxiety = 7
    /\ fout.stats.peak_date = 2



-----------------------------------------------------------------------------
(* Backoff schedule *)

\* the failure is one the retry policy retries: a 429, 500 or 503 response, or
\* a transport-level error of a call that was made
RetriableFailure(e) ==
    \/ e.src = "http" /\ Retriable(e.code)
    \/ e.src = "url"
    \/ e.src = "exc" /\ e.code = 0

\* C21, the delays: the sleep after the failed attempt k lasts
\* min(backoff_cap, backoff_base * 2^k) plus a jitter below 0.25s, so the base
\* delays do not decrease with k and every sleep is below backoff_cap + 0.25s.
C21_Delays ==
    \A p \in Coaches :
        LET r == req[p]
        IN  r.pc = "sleeping" =>
              /\ r.delay - BackoffBase(r.attempt) \in 0..(JITTER_MS - 1)
              /\ r.delay < BACKOFF_CAP_MS + JITTER_MS
              /\ \A k \in 0..r.attempt : BackoffBase(k) <= BackoffBase(r.attempt)

\* C21, the sleeps: one sleep between two consecutive upstream attempts, so the
\* sleeps taken are the upstream attempts made so far (less the last one while
\* it is not followed by a sleep); a sleep follows only a retriable failure
\* that is not the final attempt.
C21_Sleeps ==
    \A p \in Coaches :
        LET r == req[p]
        IN  /\ r.pc = "calling" => r.attempt = r.calls
            /\ r.pc = "sleeping" =>
                  /\ r.attempt + 1 = r.calls
                  /\ RetriableFailure(r.last_err)
                  /\ r.attempt < cfg.retries
            /\ (GatewayFailed(r) \/ r.why = "llm") => r.attempt + 1 = r.calls

\* C21: within one generate call exactly one backoff sleep lies between two
\* consecutive upstream attempts, none follows the final attempt or a
\* non-retriable failure, and the sleep before attempt k+1 has the base delay
\* min(backoff_cap, backoff_base * 2^k) and stays below backoff_cap + 0.25s.
C21_BackoffSchedule == C21_Sleeps /\ C21_Delays



-----------------------------------------------------------------------------
(* Window shape *)

\* the rows the request loaded, and those of them dated up to its current date
LoadedRows(r) == SeqRange(r.logs_desc)
LoadedPast(r) == {l \in LoadedRows(r) : IsCalendar(l.date) /\ l.date <= r.day}

\* the base of the selection: the past rows if there are 3 of them, else all
BaseRows(r) == IF Cardinality(LoadedPast(r)) >= 3 THEN LoadedPast(r) ELSE LoadedRows(r)

\* the request has selected a window
Selected(r) == r.pc \notin {"idle", "enter", "locked"} /\ r.sel.ok

\* the request holds an ok result
HoldsOk(r) ==
    \/ r.pc \in {"setwait", "setlocked"}
    \/ r.pc = "done" /\ r.why \in {"llm", "fallback", "cached"}

\* C22: over loaded rows of distinct valid dates the window is sorted ascending
\* by date, holds the row of the latest date of the base (which is
\* used_end_date), holds exactly the rows of the base dated from
\* used_end_date - (days - 1) to used_end_date, and so has between 1 and days
\* rows; every ok result has 3 <= n_logs_used <= days.
C22_WindowShape ==
    \A p \in Coaches :
        LET r == req[p]
            w == r.sel.window
        IN  /\ (r.pc \notin {"idle", "enter", "locked"} /\ r.logs_desc # <<>>) => r.sel.ok
            /\ Selected(r) =>
                  /\ \A i \in 1..(Len(w) - 1) : w[i].date < w[i + 1].date
                  /\ \A l \in BaseRows(r) : l.date <= r.sel.used_end_date
                  /\ \E i \in 1..Len(w) :
                        w[i].date = r.sel.used_end_date /\ w[i] \in BaseRows(r)
                  /\ r.sel.used_start_date = r.sel.used_end_date - (r.days - 1)
                  /\ SeqRange(w) =
                        {l \in BaseRows(r) : /\ r.sel.used_start_date <= l.date
                                             /\ l.date <= r.sel.used_end_date}
                  /\ Len(w) = Cardinality(SeqRange(w))
                  /\ 1 <= Len(w) /\ Len(w) <= r.days
            /\ HoldsOk(r) =>
                  /\ r.result.ok
                  /\ MIN_WINDOW <= r.result.n_logs_used
                  /\ r.result.n_logs_used <= r.result.days

\* an ok result over a window of exactly days rows, cut out of a base that
\* holds an older row beyond a gap, with a future-dated row loaded
C22_Witness ==
    \E p \in Coaches :
        /\ HoldsOk(req[p])
        /\ req[p].result.n_logs_used = req[p].result.days
        /\ \E l \in BaseRows(req[p]) : l.date + 1 < req[p].sel.used_start_date
        /\ \E l \in LoadedRows(req[p]) : l.date > req[p].day


-----------------------------------------------------------------------------
(* future_count *)

\* the rows of the input dated after the day of the call
FutureRows(in) == {l \in SeqRange(in.logs_desc) : IsCalendar(l.date) /\ l.date > in.today}

\* the base of the selection over the input
BaseOf(in) == IF Cardinality(PastRows(in)) >= 3 THEN PastRows(in) ELSE SeqRange(in.logs_desc)

\* C23 as stated: future_count is the number of future-dated rows left out of
\* the base: no row it counts is in the base or in the window.
C23_FutureCountExcluded ==
    (fout.applied /\ fout.sel.ok) =>
        /\ fout.sel.future_count = Cardinality(FutureRows(fin))
        /\ \A l \in FutureRows(fin) :
              l \notin BaseOf(fin) /\ l \notin SeqRange(fout.sel.window)

\* C23, amended: future_count is the number of future-dated rows of the input.
\* They are left out of the base and of the window when the input holds at
\* least 3 rows dated up to the current date (used_past_only); otherwise they
\* are all in the base, and those within the window range are in the window.
C23_FutureCountDetected ==
    (fout.applied /\ fout.sel.ok) =>
        /\ fout.sel.future_count = Cardinality(FutureRows(fin))
        /\ fout.sel.used_past_only =>
              \A l \in FutureRows(fin) :
                  l \notin BaseOf(fin) /\ l \notin SeqRange(fout.sel.window)
        /\ ~fout.sel.used_past_only =>
              \A l \in FutureRows(fin) :
                  /\ l \in BaseOf(fin)
                  /\ l.date >= fout.sel.used_start_date => l \in SeqRange(fout.sel.window)

\* two future-dated rows are counted and both are in the window, next to two
\* past rows
C23_Witness ==
    /\ fout.applied
    /\ fout.sel.ok
    /\ ~fout.sel.used_past_only
    /\ fout.sel.future_count = 2
    /\ Cardinality(PastRows(fin)) = 2
    /\ FutureRows(fin) \subseteq SeqRange(fout.sel.window)



-----------------------------------------------------------------------------
(* Cache hits *)

\* worker p is served from the cache in this step
IsHit(p) == LooksUp(p) /\ req'[p].pc = "done"

\* C24: a request served from the cache makes no upstream call and leaves the
\* cache as it is, the timestamp of the hit entry included; a lookup made more
\* than the TTL after the entry was written finds it expired, whatever hits it
\* has had in between.
C24_HitIsReadOnly ==
    [][\A p \in Coaches :
         /\ IsHit(p) =>
               /\ cache' = cache
               /\ req'[p].calls = 0
               /\ req'[p].why = "cached"
               /\ \E e \in Entries(cache, req[p].key) :
                     /\ req'[p].result = e.value
                     /\ e \in cache'
                     /\ \E h \in okHist : h.key = e.key /\ h.ts = e.ts /\ h.result = e.value
         /\ LooksUp(p) =>
               \A h \in okHist :
                   (/\ h.key = req[p].key
                    /\ [key |-> h.key, ts |-> h.ts, value |-> h.result] \in cache
                    /\ req[p].tnow - h.ts > SNIX_CACHE_TTL_SEC) =>
                       /\ req'[p].pc = "calling"
                       /\ Entries(cache', req[p].key) = {}]_vars

\* an entry written at time 0 was hit half a TTL later and, one second after
\* the TTL, a lookup has found it expired and removed it
C24_Witness ==
    /\ req["c2"].pc = "done"
    /\ req["c2"].why = "cached"
    /\ req["c2"].tnow = SNIX_CACHE_TTL_SEC \div 2
    /\ req["c1"].pc = "calling"
    /\ req["c1"].evicted
    /\ req["c1"].id > req["c2"].id
    /\ req["c1"].tnow = SNIX_CACHE_TTL_SEC + 1
    /\ \E h \in okHist : h.ts = 0 /\ h.seq = req["c2"].id



-----------------------------------------------------------------------------
(* Overlapping requests *)

\* the request has missed the cache and has not yet stored a result
InFlight(r) == r.pc \in {"calling", "sleeping", "setwait", "setlocked"}

\* the request holds a result it has not yet stored
HoldsUnstored(r) == r.pc \in {"setwait", "setlocked"}

\* both requests have the same key and each made its cache lookup before the
\* other stored a result
Overlapping(r, q) == InFlight(r) /\ InFlight(q) /\ r.key = q.key

\* C25: of two requests with the same cache key that are handled concurrently,
\* the second looking the cache up before the first has stored its result, at
\* most one has the upstream invoked on its behalf, and both return the same
\* report.
C25_NoRedundantCalls ==
    \A p, q \in Coaches :
        (p # q /\ Overlapping(req[p], req[q])) =>
            /\ req[p].calls = 0 \/ req[q].calls = 0
            /\ (HoldsUnstored(req[p]) /\ HoldsUnstored(req[q])) =>
                  req[p].result.report = req[q].result.report



-----------------------------------------------------------------------------
(* Past-only analysis, end to end *)

\* the rows of the table dated up to the current date of the request
StoredPast(r) == {l \in logs : IsCalendar(l.date) /\ l.date <= r.day}

\* the request has computed statistics over its window
Summarized(r) == Selected(r) /\ Len(r.sel.window) >= MIN_WINDOW

\* C26: whenever the table holds at least 3 rows dated up to the current date,
\* a coach request computes its statistics from a window without any
\* future-dated row, whatever max_items is and however many future-dated rows
\* the table holds.
C26_PastOnlyEndToEnd ==
    \A p \in Coaches :
        (Summarized(req[p]) /\ Cardinality(StoredPast(req[p])) >= 3) =>
            /\ req[p].sel.used_past_only
            /\ \A l \in SeqRange(req[p].sel.window) : l.date <= req[p].day



-----------------------------------------------------------------------------
(* Termination and the two locks *)

\* the request has arrived and has not ended
Running(r) == ~Finished(r)

\* the request has ended
Ended(r) == r.pc \in {"done", "failed"}

\* the four ways a request ends
EndedCached(r)   == r.pc = "done" /\ r.why = "cached" /\ r.status = 200 /\ ~r.wrote
EndedFresh(r)    == r.pc = "done" /\ r.why = "llm" /\ r.status = 200 /\ r.wrote
EndedFallback(r) == r.pc = "done" /\ r.why = "fallback" /\ r.status = 200 /\ r.wrote
EndedFailed(r)   == r.pc = "failed" /\ r.status \in {422, 500, 502} /\ ~r.wrote

\* the locks held by a worker or by the writer
Holds(p) == (IF storeLock = p THEN {"store"} ELSE {}) \cup
            (IF cacheLock = p THEN {"cache"} ELSE {})

\* nobody holds both locks, and a request that has ended holds none and has
\* ended in one of the four ways
LocksAndOutcomes ==
    /\ \A p \in Coaches \cup {Writer} : Cardinality(Holds(p)) <= 1
    /\ wr.pc = "idle" => Holds(Writer) = {}
    /\ \A p \in Coaches :
          LET r == req[p]
          IN  /\ Finished(r) => Holds(p) = {}
              /\ Ended(r) =>
                    \/ EndedCached(r)
                    \/ EndedFresh(r)
                    \/ EndedFallback(r)
                    \/ EndedFailed(r)

\* C27: every coach request that has arrived eventually ends, as a cached
\* result returned, a fresh LLM result cached and returned, a fallback result
\* cached and returned, or a failure, holding no lock; a store request that has
\* taken the store lock eventually releases it; and nobody ever holds the
\* store lock and the cache lock at the same time.
C27_Termination ==
    /\ []LocksAndOutcomes
    /\ \A p \in Coaches : Running(req[p]) ~> Ended(req[p])
    /\ (wr.pc = "locked") ~> (wr.pc = "idle")

\* one request has ended in the fallback after a retry and the other has
\* failed, a store request has been served, and both locks are free
C27_Witness ==
    /\ EndedFallback(req["c1"])
    /\ req["c1"].attempt = 1
    /\ EndedFailed(req["c2"])
    /\ req["c2"].why = "upstream"
    /\ wr.pc = "idle" /\ wr.status = 200
    /\ storeLock = None /\ cacheLock = None


=============================================================================
